---- MODULE Spec2Model ----
(***************************************************************************)
(* Model of gomodgraph's in-memory dependency graph                       *)
(* (internal/graph/graph.go) and of the HTTP front end that serves it.    *)
(*                                                                         *)
(* Go pointers are modelled as indices into two heaps: `nodes` holds the   *)
(* ModuleNode objects and `edges` the DependencyVertex objects.  A Go      *)
(* slice of *DependencyVertex is a sequence of edge indices: copying the   *)
(* slice header (struct copy, clone) copies the sequence of pointers, the  *)
(* DependencyVertex objects behind them stay shared.                       *)
(***************************************************************************)
EXTENDS Integers, Sequences, FiniteSets, TLC

VARIABLES modFiles, nodes, edges, graphs, calls, reqs, codec, cache, pool

\* the state of the graph package and of the HTTP front end
graphVars == <<modFiles, nodes, edges, graphs, calls, reqs>>

\* the state of the mods package: a file name being encoded and decoded,
\* the manifest cache directory, the download worker pool
modsVars == <<codec, cache, pool>>

vars == <<modFiles, nodes, edges, graphs, calls, reqs, codec, cache, pool>>

(***************************************************************************)
(* Bounds of the model.                                                    *)
(***************************************************************************)
\* number of records in the input of BuildDependencyGraph
MaxMods == 3
\* total number of require directives over all records of an input
MaxReq == 2
\* number of SubgraphFrom calls made through the API in one behaviour
MaxCalls == 3
\* records / require directives of the inputs of the build-only specification
MaxBuildMods == 2
MaxBuildReq == 2

\* modFile.Module == nil
Nil == 0

\* modFile.Go == nil
NoGo == "<nil>"

GoVersions == {"1.20"}

\* latest known release tags; "" is a module without releases
Versions == {"", "v1.2.0"}

\* versions named by require directives
RequiredVersions == {"v1.0.0", "v1.2.0"}

\* addDependency with the backward edge appended to the requiring node
addDependency_BackwardOnSelf(st, m, requires, version) ==
    LET fwd == Len(st.edges) + 1
        bwd == Len(st.edges) + 2
        n1 == [st.nodes EXCEPT ![m].Requires = Append(@, fwd)]
        n2 == [n1 EXCEPT ![m].RequiredBy = Append(@, bwd)]
    IN [st EXCEPT
          !.edges = st.edges \o
                    << [targetModule |-> requires, targetVersion |-> version],
                       [targetModule |-> m, targetVersion |-> version] >>,
          !.nodes = n2]

(***************************************************************************)
(* ModuleNode.addDependency: appends the forward edge to m.Requires and    *)
(* the backward edge to requires.RequiredBy.                               *)
(***************************************************************************)
addDependency(st, m, requires, version) ==
    LET fwd == Len(st.edges) + 1
        bwd == Len(st.edges) + 2
        n1 == [st.nodes EXCEPT ![m].Requires = Append(@, fwd)]
        n2 == [n1 EXCEPT ![requires].RequiredBy = Append(@, bwd)]
    IN [st EXCEPT
          !.edges = st.edges \o
                    << [targetModule |-> requires, targetVersion |-> version],
                       [targetModule |-> m, targetVersion |-> version] >>,
          !.nodes = n2]

(***************************************************************************)
(* ModuleNode.clone: a new node with the same fields; Requires and         *)
(* RequiredBy are the same slices (the same edge objects).                 *)
(***************************************************************************)
clone(m) ==
    [ModuleName   |-> m.ModuleName,
     Version      |-> m.Version,
     GoModVersion |-> m.GoModVersion,
     Requires     |-> m.Requires,
     RequiredBy   |-> m.RequiredBy,
     Highlight    |-> m.Highlight]

(***************************************************************************)
(* NewDependencyGraph: the list holds the values of the map, sorted by     *)
(* module name (sort.SliceStable over the map's iteration order).          *)
(***************************************************************************)
Range(f) == {f[x] : x \in DOMAIN f}

RECURSIVE SortedFrom(_, _, _)
SortedFrom(ns, ids, acc) ==
    IF ids = {} THEN acc
    ELSE LET least == CHOOSE x \in ids :
                         \A y \in ids : ns[x].ModuleName <= ns[y].ModuleName
         IN SortedFrom(ns, ids \ {least}, Append(acc, least))

\* the node ids of ids in the order the nodes were allocated
RECURSIVE ByAllocation(_, _)
ByAllocation(ids, acc) ==
    IF ids = {} THEN acc
    ELSE LET first == CHOOSE x \in ids : \A y \in ids : x <= y
         IN ByAllocation(ids \ {first}, Append(acc, first))

\* NewDependencyGraph that leaves the node list unsorted
NewDependencyGraph_Unsorted(ns, modulesMap, isSubgraph) ==
    [modulesList |-> ByAllocation(Range(modulesMap), <<>>),
     modulesMap  |-> modulesMap,
     isSubgraph  |-> isSubgraph]

NewDependencyGraph(ns, modulesMap, isSubgraph) ==
    [modulesList |-> SortedFrom(ns, Range(modulesMap), <<>>),
     modulesMap  |-> modulesMap,
     isSubgraph  |-> isSubgraph]

(***************************************************************************)
(* BuildDependencyGraph: node pass, edge pass, NewDependencyGraph.         *)
(***************************************************************************)
\* NodePassStep that keeps the node of the first record declaring a name
NodePassStep_KeepsFirst(st, module) ==
    IF module.Module = Nil
    THEN st
    ELSE LET goVersion == IF module.Go = NoGo THEN "n.a." ELSE module.Go
             moduleNode == [ModuleName   |-> module.Module,
                            GoModVersion |-> goVersion,
                            Version      |-> module.Version,
                            Requires     |-> <<>>,
                            RequiredBy   |-> <<>>,
                            Highlight    |-> FALSE]
         IN [st EXCEPT
               !.nodes = Append(@, moduleNode),
               !.modulesMap = @ @@ (module.Module :> (Len(st.nodes) + 1))]

NodePassStep(st, module) ==
    IF module.Module = Nil
    THEN st
    ELSE LET goVersion == IF module.Go = NoGo THEN "n.a." ELSE module.Go
             moduleNode == [ModuleName   |-> module.Module,
                            GoModVersion |-> goVersion,
                            Version      |-> module.Version,
                            Requires     |-> <<>>,
                            RequiredBy   |-> <<>>,
                            Highlight    |-> FALSE]
         IN [st EXCEPT
               !.nodes = Append(@, moduleNode),
               !.modulesMap = (module.Module :> (Len(st.nodes) + 1)) @@ @]

RECURSIVE NodePass(_, _, _)
NodePass(st, mf, i) ==
    IF i > Len(mf) THEN st
    ELSE NodePass(NodePassStep(st, mf[i]), mf, i + 1)

\* RequireStep without the check of the indirect flag
RequireStep_IgnoresIndirect(st, moduleNode, requiredModule) ==
    IF requiredModule.Path \notin DOMAIN st.modulesMap
    THEN st
    ELSE addDependency(st, moduleNode,
                       st.modulesMap[requiredModule.Path],
                       requiredModule.Version)

RequireStep(st, moduleNode, requiredModule) ==
    IF requiredModule.Indirect
    THEN st
    ELSE IF requiredModule.Path \notin DOMAIN st.modulesMap
         THEN st
         ELSE addDependency(st, moduleNode,
                            st.modulesMap[requiredModule.Path],
                            requiredModule.Version)

RECURSIVE RequireLoop(_, _, _, _)
RequireLoop(st, moduleNode, require, j) ==
    IF j > Len(require) THEN st
    ELSE RequireLoop(RequireStep(st, moduleNode, require[j]),
                     moduleNode, require, j + 1)

EdgePassStep(st, module) ==
    IF module.Module = Nil
    THEN st
    ELSE RequireLoop(st, st.modulesMap[module.Module], module.Require, 1)

RECURSIVE EdgePass(_, _, _)
EdgePass(st, mf, i) ==
    IF i > Len(mf) THEN st
    ELSE EdgePass(EdgePassStep(st, mf[i]), mf, i + 1)

EmptyMap == [x \in {} |-> 0]

BuildDependencyGraph(mf) ==
    LET st0 == [nodes |-> <<>>, edges |-> <<>>, modulesMap |-> EmptyMap]
        st2 == EdgePass(NodePass(st0, mf, 1), mf, 1)
    IN [nodes |-> st2.nodes,
        edges |-> st2.edges,
        graph |-> NewDependencyGraph(st2.nodes, st2.modulesMap, FALSE)]

(***************************************************************************)
(* DependencyGraph.LookupNode: the node stored under the name, or nil.     *)
(***************************************************************************)
LookupNode(d, moduleName) ==
    IF moduleName \in DOMAIN d.modulesMap THEN d.modulesMap[moduleName] ELSE Nil

(***************************************************************************)
(* DependencyGraph.SubgraphFrom.  st carries the heaps, the map under      *)
(* construction and the (copied) center node.                              *)
(***************************************************************************)
\* copiedNode := *centerNode; centerNode.Highlight = true; map[name] = it
CopyCenter(ns, es, centerNode) ==
    LET copiedNode == [ns[centerNode] EXCEPT !.Highlight = TRUE]
        id == Len(ns) + 1
    IN [nodes |-> Append(ns, copiedNode),
        edges |-> es,
        subgraphNodesMap |-> (copiedNode.ModuleName :> id),
        centerNode |-> id]

\* RequiresIter with the copy stored under the center's name
RequiresIter_KeyedByCenter(st, i) ==
    LET dependency == st.nodes[st.centerNode].Requires[i]
        target == st.edges[dependency].targetModule
        cloneModule == [clone(st.nodes[target]) EXCEPT !.Requires = <<>>]
        id == Len(st.nodes) + 1
    IN [st EXCEPT
          !.nodes = Append(@, cloneModule),
          !.subgraphNodesMap = (st.nodes[st.centerNode].ModuleName :> id) @@ @,
          !.edges = [@ EXCEPT ![dependency].targetModule = id]]

\* RequiresIter with the edge repointed to the center copy
RequiresIter_RepointsToCenter(st, i) ==
    LET dependency == st.nodes[st.centerNode].Requires[i]
        target == st.edges[dependency].targetModule
        cloneModule == [clone(st.nodes[target]) EXCEPT !.Requires = <<>>]
        id == Len(st.nodes) + 1
    IN [st EXCEPT
          !.nodes = Append(@, cloneModule),
          !.subgraphNodesMap = (st.nodes[target].ModuleName :> id) @@ @,
          !.edges = [@ EXCEPT ![dependency].targetModule = st.centerNode]]

\* body of `for _, dependency := range centerNode.Requires`
RequiresIter(st, i) ==
    LET dependency == st.nodes[st.centerNode].Requires[i]
        target == st.edges[dependency].targetModule
        cloneModule == [clone(st.nodes[target]) EXCEPT !.Requires = <<>>]
        id == Len(st.nodes) + 1
    IN [st EXCEPT
          !.nodes = Append(@, cloneModule),
          !.subgraphNodesMap = (st.nodes[target].ModuleName :> id) @@ @,
          !.edges = [@ EXCEPT ![dependency].targetModule = id]]

\* body of `for _, dependency := range centerNode.RequiredBy`
RequiredByIter(st, i) ==
    LET dependency == st.nodes[st.centerNode].RequiredBy[i]
        target == st.edges[dependency].targetModule
        back == Len(st.edges) + 1
        clonedModule == [clone(st.nodes[target]) EXCEPT !.Requires = <<back>>]
        id == Len(st.nodes) + 1
    IN [st EXCEPT
          !.nodes = Append(@, clonedModule),
          !.edges = Append(@, [targetModule  |-> st.centerNode,
                               targetVersion |-> st.edges[dependency].targetVersion]),
          !.subgraphNodesMap = (st.nodes[target].ModuleName :> id) @@ @]

RECURSIVE RequiresLoop(_, _)
RequiresLoop(st, i) ==
    IF i > Len(st.nodes[st.centerNode].Requires) THEN st
    ELSE RequiresLoop(RequiresIter(st, i), i + 1)

RECURSIVE RequiredByLoop(_, _)
RequiredByLoop(st, i) ==
    IF i > Len(st.nodes[st.centerNode].RequiredBy) THEN st
    ELSE RequiredByLoop(RequiredByIter(st, i), i + 1)

\* SubgraphFrom without its guard
SubgraphPanics_Never(d) == FALSE

\* the guard of SubgraphFrom: panic on a graph that is a subgraph
SubgraphPanics(d) == d.isSubgraph

SubgraphFrom(ns, es, d, centerNode) ==
    IF SubgraphPanics(d)
    THEN [panic |-> TRUE, nodes |-> ns, edges |-> es]
    ELSE LET st == RequiredByLoop(
                     RequiresLoop(CopyCenter(ns, es, centerNode), 1), 1)
         IN [panic |-> FALSE,
             nodes |-> st.nodes,
             edges |-> st.edges,
             graph |-> NewDependencyGraph(st.nodes, st.subgraphNodesMap, TRUE)]

(***************************************************************************)
(* Inputs of BuildDependencyGraph: sequences of parsed manifests, as       *)
(* mods.ReadModFiles appends them.  A record is [Module, Go, Version,      *)
(* Require]; Module = Nil is a manifest without module directive.          *)
(***************************************************************************)
RequireSet(paths, indirects) ==
    [Path : paths, Version : RequiredVersions, Indirect : indirects]

RecordSet(modules, gos, versions, requires, k) ==
    [Module : modules, Go : gos, Version : versions,
     Require : [1..k -> requires]]

RECURSIVE RequireCount(_, _)
RequireCount(mf, i) ==
    IF i > Len(mf) THEN 0
    ELSE Len(mf[i].Require) + RequireCount(mf, i + 1)

(***************************************************************************)
(* State machine of the API: the manifests are read, the full graph is     *)
(* built once (main), then SubgraphFrom is called on graphs that exist.    *)
(***************************************************************************)
NoRequests == <<>>

\* nothing read, nothing built, no request served
GraphIdle ==
    /\ modFiles = <<>>
    /\ nodes = <<>>
    /\ edges = <<>>
    /\ graphs = <<>>
    /\ calls = <<>>
    /\ reqs = NoRequests

\* no file name in work, the cache directory not listed, no download started
ModsIdle ==
    /\ codec = [pc |-> "idle"]
    /\ cache = [pc |-> "idle"]
    /\ pool = [pc |-> "idle"]

Init ==
    /\ GraphIdle
    /\ ModsIdle

\* modFiles = append(modFiles, &Module{ModFile: file, Version: version})
ReadModFile(module) ==
    /\ graphs = <<>>
    /\ modFiles' = Append(modFiles, module)
    /\ UNCHANGED <<nodes, edges, graphs, calls, reqs, codec, cache, pool>>

\* the next manifest declares a module of its own (named in reading order)
\* and names its requirements directly
ReadOwnModFile ==
    /\ Len(modFiles) < MaxMods
    /\ \E k \in 0..(MaxReq - RequireCount(modFiles, 1)) :
          \E module \in RecordSet({Len(modFiles) + 1}, GoVersions, Versions,
                                  RequireSet(1..MaxMods, {FALSE}), k) :
             ReadModFile(module)

\* the next manifest is any manifest: no module directive, a name declared
\* before, indirect requirements, requirements outside the set
ReadAnyModFile ==
    /\ Len(modFiles) < MaxBuildMods
    /\ \E k \in 0..(MaxBuildReq - RequireCount(modFiles, 1)) :
          \E module \in RecordSet(Nil..MaxBuildMods, GoVersions \cup {NoGo},
                                  Versions,
                                  RequireSet(1..MaxBuildMods, BOOLEAN), k) :
             ReadModFile(module)

\* depGraph := graph.BuildDependencyGraph(modFiles)
Build ==
    /\ graphs = <<>>
    /\ LET b == BuildDependencyGraph(modFiles)
       IN /\ nodes' = b.nodes
          /\ edges' = b.edges
          /\ graphs' = <<b.graph>>
    /\ UNCHANGED <<modFiles, calls, reqs, codec, cache, pool>>

\* d.SubgraphFrom(centerNode) for a graph d and a node of d
CallSubgraphFrom(g, centerNode) ==
    /\ Len(calls) < MaxCalls
    /\ LET r == SubgraphFrom(nodes, edges, graphs[g], centerNode)
       IN /\ nodes' = r.nodes
          /\ edges' = r.edges
          /\ IF r.panic
             THEN /\ graphs' = graphs
                  /\ calls' = Append(calls, [graph |-> g, center |-> centerNode,
                                             out |-> Nil])
             ELSE /\ graphs' = Append(graphs, r.graph)
                  /\ calls' = Append(calls, [graph |-> g, center |-> centerNode,
                                             out |-> Len(graphs) + 1])
    /\ UNCHANGED <<modFiles, reqs, codec, cache, pool>>

Next ==
    \/ ReadOwnModFile
    \/ Build
    \/ \E g \in 1..Len(graphs) :
          \E centerNode \in Range(graphs[g].modulesMap) :
             CallSubgraphFrom(g, centerNode)

Spec == Init /\ [][Next]_vars

NextBuild ==
    \/ ReadAnyModFile
    \/ Build

SpecBuild == Init /\ [][NextBuild]_vars

\* main has built the full graph
Built == graphs # <<>>

\* the full graph (GraphRenderService.rootGraph)
Root == graphs[1]

(***************************************************************************)
(* DependencyGraph.Render, as far as the graph decides it: the visual      *)
(* nodes in list order, then one visual edge per Requires edge.  The       *)
(* lookup map graphNodes is keyed by node object; an edge whose target is  *)
(* no key of it gets a nil head.                                           *)
(***************************************************************************)
RenderNode(ns, moduleNode) ==
    [name      |-> ns[moduleNode].ModuleName,
     version   |-> IF ns[moduleNode].Version = ""
                   THEN "<no version yet>" ELSE ns[moduleNode].Version,
     goVersion |-> ns[moduleNode].GoModVersion,
     highlight |-> ns[moduleNode].Highlight,
     url       |-> IF ns[moduleNode].Highlight
                   THEN Nil ELSE ns[moduleNode].ModuleName]

RenderNodes(ns, d) ==
    [i \in 1..Len(d.modulesList) |-> RenderNode(ns, d.modulesList[i])]

RenderEdge(ns, es, d, moduleNode, dependency) ==
    LET target == es[dependency].targetModule
    IN [tail    |-> ns[moduleNode].ModuleName,
        head    |-> ns[target].ModuleName,
        label   |-> es[dependency].targetVersion,
        hasHead |-> target \in Range(d.modulesList),
        color   |-> IF /\ es[dependency].targetVersion # ns[target].Version
                       /\ ns[target].Version # ""
                    THEN "darkorange" ELSE "dimgrey"]

\* the position of the edge loop after (li, ei): the next Requires edge of
\* the node list, or past the end of the list
RECURSIVE NextEdge(_, _, _, _)
NextEdge(ns, d, li, ei) ==
    IF li > Len(d.modulesList) THEN [li |-> li, ei |-> 1]
    ELSE IF ei <= Len(ns[d.modulesList[li]].Requires)
         THEN [li |-> li, ei |-> ei]
         ELSE NextEdge(ns, d, li + 1, 1)

RECURSIVE RenderEdges(_, _, _, _, _)
RenderEdges(ns, es, d, pos, acc) ==
    IF pos.li > Len(d.modulesList) THEN acc
    ELSE LET moduleNode == d.modulesList[pos.li]
             e == RenderEdge(ns, es, d, moduleNode,
                             ns[moduleNode].Requires[pos.ei])
         IN RenderEdges(ns, es, d, NextEdge(ns, d, pos.li, pos.ei + 1),
                        Append(acc, e))

Render(ns, es, d) ==
    [status |-> 200,
     nodes  |-> RenderNodes(ns, d),
     edges  |-> RenderEdges(ns, es, d, NextEdge(ns, d, 1, 1), <<>>)]

\* http.Error(w, "... is not a known module.", http.StatusBadRequest)
NotKnown == [status |-> 400, nodes |-> <<>>, edges |-> <<>>]

(***************************************************************************)
(* GraphRenderService.ServeHTTP, one goroutine per request, all on the     *)
(* same full graph and without locks.  A request takes one step per        *)
(* iteration of the loops of SubgraphFrom and per edge of Render; steps    *)
(* of different requests interleave.                                       *)
(***************************************************************************)
MaxRequests == 2

\* where a request stands after its subgraph loops advanced to index i
AfterSubgraphStep(ns, r) ==
    IF r.pc = "requires" /\ r.i > Len(ns[r.centerNode].Requires)
    THEN IF Len(ns[r.centerNode].RequiredBy) = 0
         THEN [r EXCEPT !.pc = "assemble", !.i = 1]
         ELSE [r EXCEPT !.pc = "requiredBy", !.i = 1]
    ELSE IF r.pc = "requiredBy" /\ r.i > Len(ns[r.centerNode].RequiredBy)
         THEN [r EXCEPT !.pc = "assemble", !.i = 1]
         ELSE r

\* where a request stands when Render starts its edge loop on graph d
StartRender(ns, r, d) ==
    LET pos == NextEdge(ns, d, 1, 1)
    IN [r EXCEPT !.pc = IF pos.li > Len(d.modulesList) THEN "done" ELSE "edges",
                 !.graph = d,
                 !.pos = pos,
                 !.out = [status |-> 200, nodes |-> RenderNodes(ns, d),
                          edges |-> <<>>]]

\* a request that has written no response yet
NewRequest(mod) ==
    [pc |-> "requires", mod |-> mod, centerNode |-> Nil,
     subgraphNodesMap |-> EmptyMap, i |-> 1, graph |-> Nil,
     pos |-> [li |-> 1, ei |-> 1], out |-> <<>>]

\* a request arrives: the overview is rendered, or the center is looked up
\* and copied, or the module is not known
ServeHTTP(mod) ==
    /\ Built
    /\ Len(reqs) < MaxRequests
    /\ IF mod = Nil
       THEN /\ reqs' = Append(reqs, StartRender(nodes, NewRequest(mod), Root))
            /\ UNCHANGED <<nodes, edges>>
       ELSE IF LookupNode(Root, mod) = Nil
            THEN /\ reqs' = Append(reqs, [NewRequest(mod) EXCEPT
                                             !.pc = "done", !.out = NotKnown])
                 /\ UNCHANGED <<nodes, edges>>
            ELSE LET st == CopyCenter(nodes, edges, LookupNode(Root, mod))
                     r == [NewRequest(mod) EXCEPT
                              !.centerNode = st.centerNode,
                              !.subgraphNodesMap = st.subgraphNodesMap]
                 IN /\ nodes' = st.nodes
                    /\ edges' = st.edges
                    /\ reqs' = Append(reqs, AfterSubgraphStep(st.nodes, r))
    /\ UNCHANGED <<modFiles, graphs, calls, codec, cache, pool>>

RequestState(r) ==
    [nodes |-> nodes, edges |-> edges,
     subgraphNodesMap |-> reqs[r].subgraphNodesMap,
     centerNode |-> reqs[r].centerNode]

\* one iteration of one of the two loops of SubgraphFrom
SubgraphStep(r) ==
    /\ reqs[r].pc \in {"requires", "requiredBy"}
    /\ LET st == IF reqs[r].pc = "requires"
                 THEN RequiresIter(RequestState(r), reqs[r].i)
                 ELSE RequiredByIter(RequestState(r), reqs[r].i)
           moved == [reqs[r] EXCEPT !.i = @ + 1,
                                    !.subgraphNodesMap = st.subgraphNodesMap]
       IN /\ nodes' = st.nodes
          /\ edges' = st.edges
          /\ reqs' = [reqs EXCEPT ![r] = AfterSubgraphStep(st.nodes, moved)]
    /\ UNCHANGED <<modFiles, graphs, calls, codec, cache, pool>>

\* return NewDependencyGraph(subgraphNodesMap, true); Render creates the nodes
SubgraphReturn(r) ==
    /\ reqs[r].pc = "assemble"
    /\ LET d == NewDependencyGraph(nodes, reqs[r].subgraphNodesMap, TRUE)
       IN reqs' = [reqs EXCEPT ![r] = StartRender(nodes, reqs[r], d)]
    /\ UNCHANGED <<modFiles, nodes, edges, graphs, calls, codec, cache, pool>>

\* one iteration of the edge loop of Render
RenderStep(r) ==
    /\ reqs[r].pc = "edges"
    /\ LET d == reqs[r].graph
           pos == reqs[r].pos
           moduleNode == d.modulesList[pos.li]
           e == RenderEdge(nodes, edges, d, moduleNode,
                           nodes[moduleNode].Requires[pos.ei])
           next == NextEdge(nodes, d, pos.li, pos.ei + 1)
       IN reqs' = [reqs EXCEPT
                     ![r].out.edges = Append(@, e),
                     ![r].pos = next,
                     ![r].pc = IF next.li > Len(d.modulesList)
                               THEN "done" ELSE "edges"]
    /\ UNCHANGED <<modFiles, nodes, edges, graphs, calls, codec, cache, pool>>

NextConc ==
    \/ ReadOwnModFile
    \/ Build
    \/ \E mod \in Nil..MaxMods : ServeHTTP(mod)
    \/ \E r \in 1..Len(reqs) : SubgraphStep(r)
    \/ \E r \in 1..Len(reqs) : SubgraphReturn(r)
    \/ \E r \in 1..Len(reqs) : RenderStep(r)

SpecConc == Init /\ [][NextConc]_vars

(***************************************************************************)
(* The requests run one after another, each to its end, in a given order,  *)
(* on the graph as built: the responses they get.                          *)
(***************************************************************************)
RunAlone(h, mod) ==
    IF mod = Nil
    THEN [nodes |-> h.nodes, edges |-> h.edges, graph |-> h.graph,
          out |-> Render(h.nodes, h.edges, h.graph)]
    ELSE IF LookupNode(h.graph, mod) = Nil
         THEN [nodes |-> h.nodes, edges |-> h.edges, graph |-> h.graph,
               out |-> NotKnown]
         ELSE LET s == SubgraphFrom(h.nodes, h.edges, h.graph,
                                    LookupNode(h.graph, mod))
              IN [nodes |-> s.nodes, edges |-> s.edges, graph |-> h.graph,
                  out |-> Render(s.nodes, s.edges, s.graph)]

RECURSIVE RunInOrder(_, _, _, _)
RunInOrder(h, order, k, outs) ==
    IF k > Len(order) THEN outs
    ELSE LET s == RunAlone(h, reqs[order[k]].mod)
         IN RunInOrder(s, order, k + 1, (order[k] :> s.out) @@ outs)

Orders == Permutations(1..Len(reqs))

SerialOuts(order) ==
    RunInOrder(BuildDependencyGraph(modFiles),
               [k \in 1..Len(reqs) |-> order[k]], 1, EmptyMap)

(***************************************************************************)
(* Views used by the properties.                                           *)
(***************************************************************************)
\* an edge slice with the objects it points to: target node object, version
EdgeObjects(slice) ==
    [i \in 1..Len(slice) |-> edges[slice[i]]]

\* an edge slice by value: target module name, required version
EdgeValues(slice) ==
    [i \in 1..Len(slice) |->
        [target  |-> nodes[edges[slice[i]].targetModule].ModuleName,
         version |-> edges[slice[i]].targetVersion]]

NodeObjectView(n) ==
    [ModuleName   |-> nodes[n].ModuleName,
     Version      |-> nodes[n].Version,
     GoModVersion |-> nodes[n].GoModVersion,
     Highlight    |-> nodes[n].Highlight,
     Requires     |-> EdgeObjects(nodes[n].Requires),
     RequiredBy   |-> EdgeObjects(nodes[n].RequiredBy)]

NodeValueView(n) ==
    [ModuleName   |-> nodes[n].ModuleName,
     Version      |-> nodes[n].Version,
     GoModVersion |-> nodes[n].GoModVersion,
     Highlight    |-> nodes[n].Highlight,
     Requires     |-> EdgeValues(nodes[n].Requires),
     RequiredBy   |-> EdgeValues(nodes[n].RequiredBy)]

\* every node of the full graph with its fields and the edge objects it holds
RootView ==
    IF Built
    THEN [name \in DOMAIN Root.modulesMap |-> NodeObjectView(Root.modulesMap[name])]
    ELSE <<>>

\* a graph by value, in the order of its node list
GraphValue(d) ==
    [i \in 1..Len(d.modulesList) |-> NodeValueView(d.modulesList[i])]

\* what the manifests say, independently of the graph: the declared names,
\* the direct requirements inside the set, the dependents
Declared == {modFiles[i].Module : i \in 1..Len(modFiles)} \ {Nil}

DirectInSet(r) == ~r.Indirect /\ r.Path \in Declared

DirectRequirements(a) ==
    UNION { { modFiles[i].Require[j].Path :
                j \in {y \in 1..Len(modFiles[i].Require) :
                          DirectInSet(modFiles[i].Require[y])} } :
            i \in {x \in 1..Len(modFiles) : modFiles[x].Module = a} }

Dependents(a) == {b \in Declared : a \in DirectRequirements(b)}

\* the calls of SubgraphFrom that returned a graph
Returned == {k \in 1..Len(calls) : calls[k].out # Nil}

\* the calls made on the full graph
OnRoot == {k \in Returned : calls[k].graph = 1}

CenterName(k) == nodes[calls[k].center].ModuleName

(***************************************************************************)
(* C1: SubgraphFrom never mutates the full graph: once the full graph is   *)
(* built, no step changes a field of one of its nodes, the edge sequences  *)
(* of its nodes, or the version or the target node object of one of their  *)
(* edges.                                                                  *)
(***************************************************************************)
C1_FullGraphNeverMutated ==
    [][Built => RootView' = RootView]_vars

(***************************************************************************)
(* C2: referential consistency: in every graph (the full graph and every   *)
(* derived graph) every Requires and RequiredBy edge of every node of the  *)
(* mapping points to the node object the same mapping holds under the      *)
(* target's name.                                                          *)
(***************************************************************************)
TargetsInside(d, slice) ==
    \A i \in 1..Len(slice) :
       LET target == edges[slice[i]].targetModule
       IN LookupNode(d, nodes[target].ModuleName) = target

ReferentiallyConsistent(d) ==
    \A n \in Range(d.modulesMap) :
       /\ TargetsInside(d, nodes[n].Requires)
       /\ TargetsInside(d, nodes[n].RequiredBy)

C2_ReferentialConsistency ==
    \A g \in 1..Len(graphs) : ReferentiallyConsistent(graphs[g])

(***************************************************************************)
(* C4: the names in the mapping of SubgraphFrom(G, center) are exactly     *)
(* the center, the modules the center directly requires and the modules    *)
(* that directly require the center.                                       *)
(***************************************************************************)
Neighbourhood(a) == {a} \cup DirectRequirements(a) \cup Dependents(a)

C4_SubgraphNodeSet ==
    \A k \in OnRoot :
       /\ DOMAIN graphs[calls[k].out].modulesMap = Neighbourhood(CenterName(k))
       /\ {nodes[n].ModuleName : n \in Range(graphs[calls[k].out].modulesList)}
             = Neighbourhood(CenterName(k))

\* a subgraph was derived around a center whose dependency has a dependency
\* that is no neighbour of the center
C4_Witness ==
    \E k \in OnRoot :
       \E b \in DirectRequirements(CenterName(k)) :
          \E c \in DirectRequirements(b) :
             /\ c \notin Neighbourhood(CenterName(k))
             /\ c \notin DOMAIN graphs[calls[k].out].modulesMap

(***************************************************************************)
(* The edges the manifests ask for: for a declared name, the direct        *)
(* requirements inside the set of every record declaring it, in order.     *)
(***************************************************************************)
RequirementValue(r) == [target |-> r.Path, version |-> r.Version]

RECURSIVE ValuesOf(_, _)
ValuesOf(require, j) ==
    IF j > Len(require) THEN <<>>
    ELSE (IF DirectInSet(require[j])
          THEN <<RequirementValue(require[j])>> ELSE <<>>)
         \o ValuesOf(require, j + 1)

RECURSIVE ExpectedEdges(_, _)
ExpectedEdges(a, i) ==
    IF i > Len(modFiles) THEN <<>>
    ELSE (IF modFiles[i].Module = a
          THEN ValuesOf(modFiles[i].Require, 1) ELSE <<>>)
         \o ExpectedEdges(a, i + 1)

\* the versions with which b requires a
RequiredVersionsOf(b, a) ==
    {ExpectedEdges(b, 1)[i].version :
        i \in {x \in 1..Len(ExpectedEdges(b, 1)) : ExpectedEdges(b, 1)[x].target = a}}

(***************************************************************************)
(* C5: the outgoing edges of SubgraphFrom(G, center): the center copy      *)
(* keeps one edge per direct dependency with its required version, every   *)
(* copy of a direct dependency has no outgoing edge, every copy of a       *)
(* direct dependent has exactly one outgoing edge, to the highlighted      *)
(* center copy, with the version of its requirement on the center.         *)
(***************************************************************************)
C5_SubgraphEdges ==
    \A k \in OnRoot :
       LET c == CenterName(k)
           d == graphs[calls[k].out]
           copy(a) == nodes[d.modulesMap[a]]
       IN /\ EdgeValues(copy(c).Requires) = ExpectedEdges(c, 1)
          /\ \A b \in DirectRequirements(c) : copy(b).Requires = <<>>
          /\ \A b \in Dependents(c) :
                /\ Len(copy(b).Requires) = 1
                /\ LET e == edges[copy(b).Requires[1]]
                   IN /\ e.targetModule = d.modulesMap[c]
                      /\ nodes[e.targetModule].Highlight
                      /\ e.targetVersion \in RequiredVersionsOf(b, c)

(***************************************************************************)
(* C6: two SubgraphFrom calls with the same center on the full graph give  *)
(* value-equal graphs: the same node list with equal names, versions,      *)
(* toolchain versions, highlight flags and equal (target name, required    *)
(* version) sequences, whatever calls happen in between.                   *)
(***************************************************************************)
C6_SameCenterSameValue ==
    \A k1, k2 \in OnRoot :
       calls[k1].center = calls[k2].center
          => GraphValue(graphs[calls[k1].out]) = GraphValue(graphs[calls[k2].out])

\* the same center twice, with a call for another center in between, on a
\* center that has a dependency and a dependent
C6_Witness ==
    \E k1, k2, k3 \in OnRoot :
       /\ k1 < k2 /\ k2 < k3
       /\ calls[k1].center = calls[k3].center
       /\ calls[k2].center # calls[k1].center
       /\ DirectRequirements(CenterName(k1)) \ {CenterName(k1)} # {}
       /\ Dependents(CenterName(k1)) # {}
       /\ CenterName(k2) \in Neighbourhood(CenterName(k1))

(***************************************************************************)
(* C7: SubgraphFrom on a subgraph panics and returns no graph; the built   *)
(* graph is no subgraph, every derived graph is one, and no graph is       *)
(* derived from a subgraph.                                                *)
(***************************************************************************)
C7_NoSubgraphOfSubgraph ==
    /\ Built => ~Root.isSubgraph
    /\ \A g \in 2..Len(graphs) : graphs[g].isSubgraph
    /\ \A k \in 1..Len(calls) :
          /\ graphs[calls[k].graph].isSubgraph => calls[k].out = Nil
          /\ calls[k].out # Nil => ~graphs[calls[k].graph].isSubgraph
    /\ Len(graphs) = (IF Built THEN 1 ELSE 0) + Cardinality(Returned)

\* SubgraphFrom was called on a derived graph
C7_Witness ==
    \E k \in 1..Len(calls) :
       /\ graphs[calls[k].graph].isSubgraph
       /\ calls[k].out = Nil

(***************************************************************************)
(* C8: bidirectional mirror: in the built graph, for all nodes A, B and    *)
(* every version V, A.Requires holds as many edges to B with V as          *)
(* B.RequiredBy holds edges to A with V.                                   *)
(***************************************************************************)
EdgeCount(slice, target, version) ==
    Cardinality({i \in 1..Len(slice) :
                    /\ edges[slice[i]].targetModule = target
                    /\ edges[slice[i]].targetVersion = version})

C8_BidirectionalMirror ==
    Built =>
       \A a, b \in Range(Root.modulesMap) :
          \A v \in RequiredVersions :
             EdgeCount(nodes[a].Requires, b, v) = EdgeCount(nodes[b].RequiredBy, a, v)

\* a built graph where one module requires another one twice with the same
\* version
C8_Witness ==
    /\ Built
    /\ \E a, b \in Range(Root.modulesMap) :
          \E v \in RequiredVersions :
             /\ a # b
             /\ EdgeCount(nodes[a].Requires, b, v) = 2
             /\ EdgeCount(nodes[b].RequiredBy, a, v) = 2

(***************************************************************************)
(* C9: the built graph holds exactly one node per declared module name     *)
(* and no other node; a record without module directive adds none; of      *)
(* several records declaring one name the last one gives the node its      *)
(* version and toolchain version.                                          *)
(***************************************************************************)
LastDeclaring(a) ==
    CHOOSE i \in 1..Len(modFiles) :
       /\ modFiles[i].Module = a
       /\ \A j \in (i + 1)..Len(modFiles) : modFiles[j].Module # a

GoVersionOf(module) == IF module.Go = NoGo THEN "n.a." ELSE module.Go

C9_OneNodePerDeclaredName ==
    Built =>
       /\ DOMAIN Root.modulesMap = Declared
       /\ Len(Root.modulesList) = Cardinality(Declared)
       /\ {nodes[n].ModuleName : n \in Range(Root.modulesList)} = Declared
       /\ \A a \in Declared :
             LET n == nodes[Root.modulesMap[a]]
             IN /\ n.ModuleName = a
                /\ n.Version = modFiles[LastDeclaring(a)].Version
                /\ n.GoModVersion = GoVersionOf(modFiles[LastDeclaring(a)])

\* a built graph from two records declaring the same name with different
\* versions and toolchain versions
C9_Witness ==
    /\ Built
    /\ \E i, j \in 1..Len(modFiles) :
          /\ i < j
          /\ modFiles[i].Module # Nil
          /\ modFiles[i].Module = modFiles[j].Module
          /\ modFiles[i].Version # modFiles[j].Version
          /\ modFiles[i].Go # modFiles[j].Go

\* a built graph from a record without module directive and a declared one
C9_WitnessNoModule ==
    /\ Built
    /\ \E i, j \in 1..Len(modFiles) :
          /\ modFiles[i].Module = Nil
          /\ modFiles[j].Module # Nil

(***************************************************************************)
(* C10: the edges of the built graph are exactly the direct requirements   *)
(* inside the set: every node holds, in order, one edge per direct         *)
(* requirement on a declared name of the records declaring it, with the    *)
(* literal required version, pointing to the node of that name; indirect   *)
(* and out-of-set requirements give no edge.                               *)
(***************************************************************************)
C10_EdgesAreDirectInSetRequirements ==
    Built =>
       \A a \in Declared :
          LET n == nodes[Root.modulesMap[a]]
          IN /\ EdgeValues(n.Requires) = ExpectedEdges(a, 1)
             /\ \A i \in 1..Len(n.Requires) :
                   edges[n.Requires[i]].targetModule
                      = Root.modulesMap[ExpectedEdges(a, 1)[i].target]

\* a built graph from a record that names an indirect requirement on a
\* declared module, one outside the set and a direct one inside
C10_Witness ==
    /\ Built
    /\ \E i \in 1..Len(modFiles) :
          /\ modFiles[i].Module # Nil
          /\ \E j \in 1..Len(modFiles[i].Require) :
                /\ modFiles[i].Require[j].Indirect
                /\ modFiles[i].Require[j].Path \in Declared
          /\ \E j \in 1..Len(modFiles[i].Require) :
                /\ ~modFiles[i].Require[j].Indirect
                /\ modFiles[i].Require[j].Path \in Declared
                /\ modFiles[i].Require[j].Version
                      # nodes[Root.modulesMap[modFiles[i].Require[j].Path]].Version

\* a built graph from a record with a direct requirement outside the set
C10_WitnessOutside ==
    /\ Built
    /\ \E i \in 1..Len(modFiles) :
          /\ modFiles[i].Module # Nil
          /\ \E j \in 1..Len(modFiles[i].Require) :
                /\ ~modFiles[i].Require[j].Indirect
                /\ modFiles[i].Require[j].Path \notin Declared

(***************************************************************************)
(* C3: concurrent requests need no locking: whatever the interleaving of   *)
(* the requests' steps, when all requests are answered their responses     *)
(* are the responses of the same requests run one after another in some    *)
(* order.                                                                  *)
(***************************************************************************)
AllDone == \A r \in 1..Len(reqs) : reqs[r].pc = "done"

C3_ConcurrentAsSequential ==
    (Len(reqs) > 0 /\ AllDone) =>
       \E order \in Orders :
          \A r \in 1..Len(reqs) : reqs[r].out = SerialOuts(order)[r]

(***************************************************************************)
(* The manifests as the downloader stores them: the version of a manifest  *)
(* is what latestVersion returned for its project, carried by the file     *)
(* name (storeModFile, ReadModFiles).                                      *)
(***************************************************************************)
\* the answers of GitLab's tag listing (one tag per page, newest first): an
\* error, no tag, the newest tag
TagLookups ==
    {[err |-> TRUE,  tags |-> <<>>],
     [err |-> FALSE, tags |-> <<>>],
     [err |-> FALSE, tags |-> <<"v1.2.0">>]}

latestVersion(lookup) ==
    IF lookup.err THEN "n.a."
    ELSE IF Len(lookup.tags) = 0 THEN ""
         ELSE lookup.tags[1]

\* the next manifest is one the downloader stored
ReadStoredModFile ==
    /\ Len(modFiles) < MaxBuildMods
    /\ \E k \in 0..(MaxBuildReq - RequireCount(modFiles, 1)) :
          \E lookup \in TagLookups :
             \E module \in RecordSet(Nil..MaxBuildMods, GoVersions \cup {NoGo},
                                     {latestVersion(lookup)},
                                     RequireSet(1..MaxBuildMods, BOOLEAN), k) :
                ReadModFile(module)

(***************************************************************************)
(* Render called on a graph that exists; the response is kept.             *)
(***************************************************************************)
\* number of Render calls made through the API in one behaviour
MaxRenders == 1

\* d.Render(w) for the graph d = graphs[g]
RenderGraph(g) ==
    /\ Len(reqs) < MaxRenders
    /\ reqs' = Append(reqs, [NewRequest(Nil) EXCEPT
                                !.pc = "done",
                                !.graph = graphs[g],
                                !.out = Render(nodes, edges, graphs[g])])
    /\ UNCHANGED <<modFiles, nodes, edges, graphs, calls, codec, cache, pool>>

NextRender ==
    \/ ReadStoredModFile
    \/ Build
    \/ \E g \in 1..Len(graphs) : RenderGraph(g)

\* stored manifests are read, the full graph is built and rendered
SpecRender == Init /\ [][NextRender]_vars

NextApi ==
    \/ Next
    \/ \E g \in 1..Len(graphs) : RenderGraph(g)

\* the API of the graph package with Render
SpecApi == Init /\ [][NextApi]_vars

\* the responses of the Render calls made so far
Rendered == {r \in 1..Len(reqs) : reqs[r].pc = "done" /\ reqs[r].out.status = 200}

\* the Render calls made on the full graph / on a derived graph
RenderedRoot == {r \in Rendered : ~reqs[r].graph.isSubgraph}
RenderedDerived == {r \in Rendered : reqs[r].graph.isSubgraph}

(***************************************************************************)
(* Inputs with the same content in another order: the records permuted,    *)
(* the require directives of each record permuted.                         *)
(***************************************************************************)
PermuteSeq(seq, p) == [i \in 1..Len(seq) |-> seq[p[i]]]

RequireOrders(module) ==
    {[module EXCEPT !.Require = PermuteSeq(module.Require, q)] :
        q \in Permutations(1..Len(module.Require))}

RecordOrders(mf) == {PermuteSeq(mf, p) : p \in Permutations(1..Len(mf))}

Reorderings(mf) ==
    UNION { {m2 \in [1..Len(m) -> UNION {RequireOrders(m[i]) : i \in 1..Len(m)}] :
                \A i \in 1..Len(m) : m2[i] \in RequireOrders(m[i])} :
            m \in RecordOrders(mf) }

BagOf(seq) ==
    [v \in Range(seq) |-> Cardinality({i \in 1..Len(seq) : seq[i] = v})]

\* the Requires edges of node n of a built graph b, by value
RequiresOf(b, n) ==
    [i \in 1..Len(b.nodes[n].Requires) |->
        [target  |-> b.nodes[b.edges[b.nodes[n].Requires[i]].targetModule].ModuleName,
         version |-> b.edges[b.nodes[n].Requires[i]].targetVersion]]

\* the nodes of a built graph by name, each with its edges in their order
OrderedContent(b) ==
    [name \in DOMAIN b.graph.modulesMap |->
        LET n == b.graph.modulesMap[name]
        IN [Version      |-> b.nodes[n].Version,
            GoModVersion |-> b.nodes[n].GoModVersion,
            Requires     |-> RequiresOf(b, n)]]

\* the nodes of a built graph by name, each with its edges as a multiset
Content(b) ==
    [name \in DOMAIN b.graph.modulesMap |->
        [OrderedContent(b)[name] EXCEPT !.Requires = BagOf(@)]]

RenderOf(b) == Render(b.nodes, b.edges, b.graph)

\* the reorderings of the manifests read that build a graph of the same
\* node and edge content
SameContentInputs ==
    {m2 \in Reorderings(modFiles) :
        Content(BuildDependencyGraph(m2)) = Content(BuildDependencyGraph(modFiles))}

(***************************************************************************)
(* C11 as stated: a graph built from the same records in another order,    *)
(* the require directives of the records in another order too, is          *)
(* rendered with the same sequence of nodes and the same sequence of       *)
(* edges.                                                                  *)
(***************************************************************************)
C11_SameRenderingInAnyOrder ==
    \A r \in RenderedRoot :
       \A m2 \in SameContentInputs :
          RenderOf(BuildDependencyGraph(m2)) = reqs[r].out

(***************************************************************************)
(* C11, amended: a graph of the same node and edge content built from the  *)
(* records in another order is rendered with the same sequence of nodes,   *)
(* ascending by module name, and with the same edges as a multiset; the    *)
(* sequence of edges is the same when every node has its Requires edges    *)
(* in the same order, as Render emits the edges of a node in the order of  *)
(* its require directives.                                                 *)
(***************************************************************************)
C11_SameRenderingUpToRequireOrder ==
    \A r \in RenderedRoot :
       /\ \A i \in 1..(Len(reqs[r].out.nodes) - 1) :
             reqs[r].out.nodes[i].name < reqs[r].out.nodes[i + 1].name
       /\ \A m2 \in SameContentInputs :
             LET b == BuildDependencyGraph(m2)
             IN /\ RenderOf(b).nodes = reqs[r].out.nodes
                /\ BagOf(RenderOf(b).edges) = BagOf(reqs[r].out.edges)
                /\ OrderedContent(b) = OrderedContent(BuildDependencyGraph(modFiles))
                      => RenderOf(b).edges = reqs[r].out.edges

\* two nodes and two edges were rendered, and the records read in the
\* other order build the same content with the same order of edges
C11_Witness ==
    \E r \in RenderedRoot :
       /\ Len(reqs[r].out.nodes) = 2
       /\ Len(reqs[r].out.edges) = 2
       /\ \E m2 \in RecordOrders(modFiles) \ {modFiles} :
             OrderedContent(BuildDependencyGraph(m2))
                = OrderedContent(BuildDependencyGraph(modFiles))

\* the versions a stored manifest carries when no latest version is known:
\* the lookup failed, or the project has no tag
UnknownVersions ==
    {latestVersion(lookup) : lookup \in {l \in TagLookups : l.err \/ l.tags = <<>>}}

\* the version the manifests give for a declared name (the last record wins)
LatestOf(name) == modFiles[LastDeclaring(name)].Version

(***************************************************************************)
(* C12: an edge is rendered in the stale colour if and only if its         *)
(* required version differs from the latest version of its target and     *)
(* that latest version is known; an edge whose target has no release, or   *)
(* whose version lookup failed, is rendered in the neutral colour.         *)
(***************************************************************************)
C12_StaleIffOutdatedAndKnown ==
    \A r \in RenderedRoot :
       \A i \in 1..Len(reqs[r].out.edges) :
          LET e == reqs[r].out.edges[i]
              stale == /\ e.label # LatestOf(e.head)
                       /\ LatestOf(e.head) \notin UnknownVersions
          IN e.color = IF stale THEN "darkorange" ELSE "dimgrey"

(***************************************************************************)
(* The file names of the manifest cache (internal/mods/mods.go).  A Go     *)
(* string is a sequence of bytes; a file name is a sequence of             *)
(* characters.                                                             *)
(***************************************************************************)
\* length of the version strings encoded
MaxVersionLen == 3

\* the bytes version strings are made of: NUL, '.', '1', '_', 'v', 0xff
VersionBytes == {0, 46, 49, 95, 118, 255}

\* project names: "", "a", "a/b", "_"
ProjectNames == {<<>>, <<97>>, <<97, 47, 98>>, <<95>>}

VersionStrings == UNION {[1..n -> VersionBytes] : n \in 0..MaxVersionLen}

\* const hextable = "0123456789abcdef"
hextable ==
    <<"0", "1", "2", "3", "4", "5", "6", "7", "8", "9", "a", "b", "c", "d", "e", "f">>

\* hex.EncodeToString: two digits per byte, the high nibble first
EncodeToString(src) ==
    [i \in 1..(2 * Len(src)) |->
        IF i % 2 = 1
        THEN hextable[(src[(i + 1) \div 2] \div 16) + 1]
        ELSE hextable[(src[i \div 2] % 16) + 1]]

\* the value of a hexadecimal digit (both cases), 16 for any other character
fromHexChar(c) ==
    IF \E k \in 1..16 : hextable[k] = c
    THEN (CHOOSE k \in 1..16 : hextable[k] = c) - 1
    ELSE IF c \in {"A", "B", "C", "D", "E", "F"}
         THEN CASE c = "A" -> 10 [] c = "B" -> 11 [] c = "C" -> 12
                [] c = "D" -> 13 [] c = "E" -> 14 [] c = "F" -> 15
         ELSE 16

\* hex.DecodeString: an error for a character that is no digit and for an
\* odd length
DecodeString(str) ==
    IF \/ Len(str) % 2 = 1
       \/ \E i \in 1..Len(str) : fromHexChar(str[i]) = 16
    THEN [err |-> TRUE, bytes |-> <<>>]
    ELSE [err |-> FALSE,
          bytes |-> [i \in 1..(Len(str) \div 2) |->
                       16 * fromHexChar(str[2 * i - 1]) + fromHexChar(str[2 * i])]]

\* sha256.Size
Size == 32

\* sha256.Sum256: Size bytes that the data determines (a stand-in for the
\* digest: the file names only need its length and that it is a function)
RECURSIVE SumBytes(_, _)
SumBytes(data, i) ==
    IF i > Len(data) THEN 0 ELSE data[i] + SumBytes(data, i + 1)

Sum256(data) == [i \in 1..Size |-> (SumBytes(data, 1) + 31 * i + Len(data)) % 256]

\* the position of the k-th separator of str; 0 before the first one and
\* Len(str) + 1 after the last one
SeparatorAt(str, sep, k) ==
    LET seps == {i \in 1..Len(str) : str[i] = sep}
    IN IF k = 0 THEN 0
       ELSE IF k > Cardinality(seps) THEN Len(str) + 1
            ELSE CHOOSE i \in seps : Cardinality({j \in seps : j < i}) = k - 1

SeparatorCount(str, sep) == Cardinality({i \in 1..Len(str) : str[i] = sep})

\* Split that drops the empty parts
Split_DropsEmpty(str, sep) ==
    SelectSeq([k \in 1..(SeparatorCount(str, sep) + 1) |->
                  SubSeq(str, SeparatorAt(str, sep, k - 1) + 1,
                         SeparatorAt(str, sep, k) - 1)],
              LAMBDA part : part # <<>>)

\* strings.Split: the parts between the separators, empty parts included
Split(str, sep) ==
    [k \in 1..(SeparatorCount(str, sep) + 1) |->
        SubSeq(str, SeparatorAt(str, sep, k - 1) + 1, SeparatorAt(str, sep, k) - 1)]

encodeFilename(projectName, version) ==
    EncodeToString(Sum256(projectName)) \o <<"_">> \o EncodeToString(version)

decodeFilename(filename) ==
    LET splits == Split(filename, "_")
    IN IF Len(splits) # 2
       THEN [err |-> TRUE, version |-> <<>>]
       ELSE LET decoded == DecodeString(splits[2])
            IN IF decoded.err
               THEN [err |-> TRUE, version |-> <<>>]
               ELSE [err |-> FALSE, version |-> decoded.bytes]

\* a project name and a version to store a manifest under
InitFilename ==
    /\ GraphIdle
    /\ cache = [pc |-> "idle"]
    /\ pool = [pc |-> "idle"]
    /\ codec \in [pc : {"input"}, projectName : ProjectNames,
                  version : VersionStrings]

\* filename := encodeFilename(projectName, version)
EncodeFilename ==
    /\ codec.pc = "input"
    /\ codec' = [pc          |-> "encoded",
                 projectName |-> codec.projectName,
                 version     |-> codec.version,
                 filename    |-> encodeFilename(codec.projectName, codec.version)]
    /\ UNCHANGED <<modFiles, nodes, edges, graphs, calls, reqs, cache, pool>>

\* decodedVersion, err := decodeFilename(filename)
DecodeFilename ==
    /\ codec.pc = "encoded"
    /\ codec' = [pc          |-> "decoded",
                 projectName |-> codec.projectName,
                 version     |-> codec.version,
                 filename    |-> codec.filename,
                 decoded     |-> decodeFilename(codec.filename)]
    /\ UNCHANGED <<modFiles, nodes, edges, graphs, calls, reqs, cache, pool>>

NextFilename ==
    \/ EncodeFilename
    \/ DecodeFilename

SpecFilename == InitFilename /\ [][NextFilename]_vars

(***************************************************************************)
(* C14: file name round trip: for every project name and every version    *)
(* string, the empty version included, decoding the encoded file name      *)
(* succeeds and returns exactly the version.                               *)
(***************************************************************************)
C14_FilenameRoundTrip ==
    codec.pc = "decoded" =>
       /\ ~codec.decoded.err
       /\ codec.decoded.version = codec.version

\* the file name of a module without releases was decoded
C14_Witness ==
    /\ codec.pc = "decoded"
    /\ codec.version = <<>>
    /\ codec.filename[Len(codec.filename)] = "_"

(***************************************************************************)
(* ReadModFiles over the manifest cache directory, then the graph build    *)
(* (main).  The directory is listed once; the loop takes one entry per     *)
(* step.                                                                   *)
(***************************************************************************)
\* number of entries of the cache directory
MaxEntries == 2

\* file names the downloader wrote: project "a" without release and at "v1"
StoredNames == {encodeFilename(<<97>>, <<>>), encodeFilename(<<97>>, <<118, 49>>)}

\* other file names: "README", and a name whose second part is not hexadecimal
ForeignNames == {<<"R", "E", "A", "D", "M", "E">>, <<"0", "0", "_", "z", "z">>}

\* what modfile.Parse makes of the manifests in the cache
CacheManifests ==
    [Module : Nil..2, Go : GoVersions,
     Require : {<<>>, <<[Path |-> 1, Version |-> "v1.0.0", Indirect |-> FALSE]>>}]

\* a directory entry: regular file or not, its name, whether os.ReadFile
\* and modfile.Parse succeed on it, and the manifest parsed from it
DirEntries ==
    [regular : BOOLEAN, name : StoredNames \cup ForeignNames,
     readable : BOOLEAN, parsable : BOOLEAN, file : CacheManifests]

\* the listings of a directory: the names are distinct
Listings ==
    {l \in UNION {[1..n -> DirEntries] : n \in 0..MaxEntries} :
        \A i, j \in 1..Len(l) : l[i].name = l[j].name => i = j}

\* dirEntries, err := os.ReadDir(modFilesDir), and the early return
ReadDir ==
    /\ cache.pc = "idle"
    /\ \/ cache' = [pc |-> "error", listed |-> FALSE, dirEntries |-> <<>>, i |-> 1]
       \/ \E l \in Listings :
             cache' = [pc |-> "loop", listed |-> TRUE, dirEntries |-> l, i |-> 1]
    /\ UNCHANGED <<modFiles, nodes, edges, graphs, calls, reqs, codec, pool>>

\* one iteration of the loop over dirEntries
ReadEntry ==
    /\ cache.pc = "loop"
    /\ cache.i <= Len(cache.dirEntries)
    /\ LET entry == cache.dirEntries[cache.i]
           decoded == decodeFilename(entry.name)
       IN IF ~entry.regular
          THEN /\ cache' = [cache EXCEPT !.i = @ + 1]
               /\ UNCHANGED modFiles
          ELSE IF decoded.err
               THEN /\ cache' = [cache EXCEPT !.pc = "error"]
                    /\ modFiles' = <<>>
               ELSE IF ~entry.readable \/ ~entry.parsable
                    THEN /\ cache' = [cache EXCEPT !.i = @ + 1]
                         /\ UNCHANGED modFiles
                    ELSE /\ cache' = [cache EXCEPT !.i = @ + 1]
                         /\ modFiles' = Append(modFiles,
                                               [Module  |-> entry.file.Module,
                                                Go      |-> entry.file.Go,
                                                Version |-> decoded.version,
                                                Require |-> entry.file.Require])
    /\ UNCHANGED <<nodes, edges, graphs, calls, reqs, codec, pool>>

\* return modFiles, nil
ReadReturn ==
    /\ cache.pc = "loop"
    /\ cache.i > Len(cache.dirEntries)
    /\ cache' = [cache EXCEPT !.pc = "returned"]
    /\ UNCHANGED <<modFiles, nodes, edges, graphs, calls, reqs, codec, pool>>

\* depGraph := graph.BuildDependencyGraph(modFiles), unless log.Fatal ended
\* the program
BuildFromCache ==
    /\ cache.pc = "returned"
    /\ Build

NextCache ==
    \/ ReadDir
    \/ ReadEntry
    \/ ReadReturn
    \/ BuildFromCache

SpecCache == Init /\ [][NextCache]_vars

\* an entry with a defect: its name does not decode, it cannot be read or
\* parsed, or its manifest has no module directive
NameDecodes(entry) == entry.name \in StoredNames

Defective(entry) ==
    \/ ~NameDecodes(entry)
    \/ ~entry.readable
    \/ ~entry.parsable
    \/ entry.file.Module = Nil

\* the regular entries without defect, in the order of the listing
SoundEntries ==
    SelectSeq(cache.dirEntries, LAMBDA entry : entry.regular /\ ~Defective(entry))

(***************************************************************************)
(* C13: reading the cache reports an error only when the directory could   *)
(* not be listed; a defect of a single entry only omits that entry: every  *)
(* entry without defect is returned and has its node in the graph built.   *)
(***************************************************************************)
C13_OnlyTheListingFails ==
    /\ cache.pc = "error" => ~cache.listed
    /\ cache.pc = "returned" =>
          /\ \A k \in 1..Len(SoundEntries) :
                \E i \in 1..Len(modFiles) :
                   modFiles[i].Module = SoundEntries[k].file.Module
          /\ Built => \A k \in 1..Len(SoundEntries) :
                         LookupNode(Root, SoundEntries[k].file.Module) # Nil

\* the derived graphs that exist
DerivedGraphs == {g \in 1..Len(graphs) : graphs[g].isSubgraph}

(***************************************************************************)
(* C15: a derived graph is complete for rendering: every Requires edge of  *)
(* every node of its node list points to the node object its mapping       *)
(* holds under the target's name, so every edge Render emits for a derived *)
(* graph has a visual node at its head.                                    *)
(***************************************************************************)
C15_DerivedGraphComplete ==
    /\ \A g \in DerivedGraphs :
          \A i \in 1..Len(graphs[g].modulesList) :
             \A j \in 1..Len(nodes[graphs[g].modulesList[i]].Requires) :
                LET target == edges[nodes[graphs[g].modulesList[i]].Requires[j]].targetModule
                IN /\ nodes[target].ModuleName \in DOMAIN graphs[g].modulesMap
                   /\ graphs[g].modulesMap[nodes[target].ModuleName] = target
    /\ \A r \in RenderedDerived :
          \A i \in 1..Len(reqs[r].out.edges) : reqs[r].out.edges[i].hasHead

\* the highlighted nodes of the mapping of graph d
Highlighted(d) == {n \in Range(d.modulesMap) : nodes[n].Highlight}

(***************************************************************************)
(* C16: no node of the full graph is ever highlighted; in every derived    *)
(* graph exactly one node of the mapping is highlighted, the node stored   *)
(* under the center's name; Render gives a drill-down link to the          *)
(* non-highlighted nodes only.                                             *)
(***************************************************************************)
C16_HighlightOnlyTheCenter ==
    /\ Built => Highlighted(Root) = {}
    /\ \A k \in Returned :
          LET d == graphs[calls[k].out]
          IN Highlighted(d) = {LookupNode(d, CenterName(k))}
    /\ \A r \in Rendered :
          \A i \in 1..Len(reqs[r].out.nodes) :
             (reqs[r].out.nodes[i].url # Nil) <=> ~reqs[r].out.nodes[i].highlight

(***************************************************************************)
(* GitLabModFetcher.downloadModFilesAndLookupVersions: downloadRoutines    *)
(* goroutines share the project list by stride; the counters are atomic;   *)
(* the caller waits on the WaitGroup.  A goroutine takes one step per      *)
(* iteration of its loop; between the last iteration and wg.Done() it      *)
(* touches nothing shared, so its last iteration ends with wg.Done().  A   *)
(* goroutine without any project takes one step to call wg.Done().         *)
(***************************************************************************)
\* len(projects)
MaxProjects == 11

downloadRoutines == 10

Routines == 0..(downloadRoutines - 1)

\* what GetRawFile and storeModFile answer for a project
FetchOutcomes == {"ok", "notFound", "error"}
StoreOutcomes == {"ok", "error"}

\* i = i + numRoutines that moves to the next project
NextIndex_NextProject(i, numRoutines) == i + 1

\* i = i + numRoutines
NextIndex(i, numRoutines) == i + numRoutines

\* wg.Add(downloadRoutines); go downloader(i, downloadRoutines) for every i
StartDownload ==
    /\ pool.pc = "idle"
    /\ \E len \in 0..MaxProjects :
          pool' = [pc         |-> "waiting",
                   len        |-> len,
                   routines   |-> [routineIdx \in Routines |->
                                     [pc |-> "loop", i |-> routineIdx]],
                   noErrorCnt |-> 0,
                   noModFile  |-> 0,
                   wg         |-> downloadRoutines,
                   by         |-> [project \in 0..(len - 1) |-> <<>>],
                   failed     |-> 0,
                   logged     |-> [noModFile |-> 0, downloaded |-> 0, errors |-> 0]]
    /\ UNCHANGED <<modFiles, nodes, edges, graphs, calls, reqs, codec, cache>>

\* one iteration of the loop of downloader(routineIdx, numRoutines), and
\* wg.Done() when it was the last one
Download(routineIdx, fetch, store) ==
    /\ pool.pc = "waiting"
    /\ pool.routines[routineIdx].pc = "loop"
    /\ pool.routines[routineIdx].i < pool.len
    /\ LET i == pool.routines[routineIdx].i
           next == NextIndex(i, downloadRoutines)
           counted == IF fetch = "notFound"
                      THEN [pool EXCEPT !.noModFile = @ + 1]
                      ELSE IF fetch = "error" \/ store = "error"
                           THEN [pool EXCEPT !.failed = @ + 1]
                           ELSE [pool EXCEPT !.noErrorCnt = @ + 1]
           moved == [counted EXCEPT !.routines[routineIdx].i = next,
                                    !.by[i] = Append(@, routineIdx)]
       IN pool' = IF next < pool.len
                  THEN moved
                  ELSE [moved EXCEPT !.routines[routineIdx].pc = "done",
                                     !.wg = @ - 1]
    /\ UNCHANGED <<modFiles, nodes, edges, graphs, calls, reqs, codec, cache>>

\* downloader(routineIdx, numRoutines) finds no project of its own: wg.Done()
DownloaderDone(routineIdx) ==
    /\ pool.pc = "waiting"
    /\ pool.routines[routineIdx].pc = "loop"
    /\ pool.routines[routineIdx].i >= pool.len
    /\ pool' = [pool EXCEPT !.routines[routineIdx].pc = "done", !.wg = @ - 1]
    /\ UNCHANGED <<modFiles, nodes, edges, graphs, calls, reqs, codec, cache>>

\* wg.Wait() returns; the summary is logged; return nil
WaitReturn ==
    /\ pool.pc = "waiting"
    /\ pool.wg = 0
    /\ pool' = [pool EXCEPT
                  !.pc = "returned",
                  !.logged = [noModFile  |-> pool.noModFile,
                              downloaded |-> pool.noErrorCnt,
                              errors     |-> pool.len - pool.noErrorCnt - pool.noModFile]]
    /\ UNCHANGED <<modFiles, nodes, edges, graphs, calls, reqs, codec, cache>>

NextPool ==
    \/ StartDownload
    \/ \E routineIdx \in Routines, fetch \in FetchOutcomes, store \in StoreOutcomes :
          Download(routineIdx, fetch, store)
    \/ \E routineIdx \in Routines : DownloaderDone(routineIdx)
    \/ WaitReturn

SpecPool == Init /\ [][NextPool]_vars

\* the projects some goroutine has processed
Processed == {project \in 0..(pool.len - 1) : pool.by[project] # <<>>}

(***************************************************************************)
(* C17: for every number of projects, every project is processed by one    *)
(* goroutine, once; every processed project is counted in exactly one of   *)
(* the outcomes no manifest, stored, error; and the download returns only  *)
(* after all downloadRoutines goroutines have finished, every project      *)
(* processed and the logged numbers adding up to the number of projects.   *)
(***************************************************************************)
C17_EveryProjectOnceThenReturn ==
    pool.pc \in {"waiting", "returned"} =>
       /\ \A project \in 0..(pool.len - 1) : Len(pool.by[project]) <= 1
       /\ pool.noModFile + pool.noErrorCnt + pool.failed = Cardinality(Processed)
       /\ pool.pc = "returned" =>
             /\ \A routineIdx \in Routines : pool.routines[routineIdx].pc = "done"
             /\ Processed = 0..(pool.len - 1)
             /\ pool.logged.errors = pool.failed
             /\ pool.logged.noModFile + pool.logged.downloaded + pool.logged.errors
                   = pool.len

\* the download of more projects than goroutines returned, with projects
\* of every outcome
C17_Witness ==
    /\ pool.pc = "returned"
    /\ pool.len > downloadRoutines
    /\ pool.logged.noModFile > 0
    /\ pool.logged.downloaded > 0
    /\ pool.logged.errors > 0

====
